---- MODULE Spec2Model ----
(***************************************************************************)
(* dwm-status (src/src/main.rs): the refresh / compose / publish loop, the *)
(* SIGUSR1 mode toggle and the once-only display connection.               *)
(*                                                                         *)
(* The main thread is modelled statement by statement (pc), the signal     *)
(* handler as an interruption of that thread (sig_pc), and the X server,   *)
(* the mixer, the metrics library and the wall clock as the environment.   *)
(***************************************************************************)
EXTENDS Integers, Sequences, FiniteSets, TLC

VARIABLES
    argv,          \* the positional arguments of the process
    FULL_STATUS,   \* static FULL_STATUS: AtomicBool
    status,        \* struct Status: time, cpu, mem, vol, should_update
    force,         \* the `force` argument of the current / last refresh_status call
    now_uts,       \* local of refresh_status: the sampled timestamp
    vol_sampled,   \* the current / last refresh_status has called load_snd_vol
    pc,            \* position of the main thread
    full_read,     \* main, line 162: the value loaded from FULL_STATUS
    title,         \* the String built by format! and owned by update_status_text
    ONCE_INIT,     \* static ONCE_INIT: Once ("new" or "done")
    PRI_DISPLAY,   \* static mut PRI_DISPLAY (0 is the null pointer)
    ROOT_WID,      \* static mut ROOT_WID
    exit_code,     \* process exit status, -1 while the process runs
    clock,         \* wall clock, seconds since 08/10 12:00:00 local time
    x_opens,       \* X library: number of XOpenDisplay calls made so far
    root_name,     \* X server: WM_NAME of the root window (NoName until stored)
    x_out,         \* X library: requests buffered and not yet flushed
    x_flushes,     \* X library: number of XFlush calls made so far
    mixer,         \* ALSA: the mixer state seen by the last load_snd_vol
    sys,           \* sysinfo: the sample seen by the last load_sys_stat
    sig_pc,        \* position of the signal handler ("none" when not running)
    sig_val,       \* the value sig_user loaded from FULL_STATUS
    n_sig,         \* number of SIGUSR1 deliveries so far
    evals_since    \* refresh_status calls begun since the last flip (0, 1 or 2)

vars == <<argv, FULL_STATUS, status, force, now_uts, vol_sampled, pc, full_read, title, ONCE_INIT, PRI_DISPLAY,
          ROOT_WID, exit_code, clock, x_opens, root_name, x_out, x_flushes, mixer, sys,
          sig_pc, sig_val, n_sig, evals_since>>

(***************************************************************************)
(* Bounds                                                                  *)
(***************************************************************************)
MaxClock == 63        \* the clock stops here
MaxSleep == 2         \* a tick takes 1 s of sleep plus at most this - 1 s of drift
MaxSignals == 3       \* SIGUSR1 deliveries
NumChannels == 2      \* channels enumerated by SelemChannelId::all()
MemSpread == 3        \* used-memory values taken on each side of a boundary

StartClocks == {56, 58}

(***************************************************************************)
(* Strings and number formatting                                           *)
(***************************************************************************)
NUL == "\\0"          \* the character '\0'
NoName == "<unset>"   \* root window without a WM_NAME property
NULL == 0             \* ptr::null_mut()

RECURSIVE PadLeft(_, _)
\* Rust's `{:w}` for a number: right-aligned, padded with spaces to width w
PadLeft(s, w) == IF Len(s) >= w THEN s ELSE PadLeft(" " \o s, w)

\* n/d rounded to the nearest integer, ties to even: what `{:.0}` does to a float
RoundHalfEven(n, d) ==
    LET q == n \div d
        r == n % d
    IN  IF 2 * r > d \/ (2 * r = d /\ q % 2 = 1) THEN q + 1 ELSE q

\* chrono's "%m/%d %H:%M" of a timestamp, the clock's origin being 08/10 12:00:00
TimeFormat(ts) ==
    LET hh == (12 + ts \div 3600) % 24
        mm == (ts \div 60) % 60
        two(n) == IF n < 10 THEN "0" \o ToString(n) ELSE ToString(n)
    IN  "08/10 " \o two(hh) \o ":" \o two(mm)

RECURSIVE CStrLen(_, _)
\* length of the C string starting at s: the characters before the first NUL
CStrLen(s, i) ==
    IF i + Len(NUL) - 1 > Len(s) THEN Len(s)
    ELSE IF SubSeq(s, i, i + Len(NUL) - 1) = NUL THEN i - 1
    ELSE CStrLen(s, i + 1)

\* what a C function reading `name.as_ptr()` sees
CStr(s) == SubSeq(s, 1, CStrLen(s, 1))

(***************************************************************************)
(* load_snd_vol                                                            *)
(***************************************************************************)
Ok(v) == <<"Ok", v>>
Err == <<"Err", 0>>
IsOk(r) == r[1] = "Ok"

RECURSIVE ChannelLoopSkipsErrors(_, _, _, _)
\* mutant: a channel whose query fails is skipped instead of aborting the closure
ChannelLoopSkipsErrors(m, i, total, cur) ==
    IF i > Len(m.chans) THEN [some |-> TRUE, total |-> total, cur |-> cur]
    ELSE LET c == m.chans[i]
             total2 == total + (m.vol_max - m.vol_min)
         IN  IF ~c.has THEN ChannelLoopSkipsErrors(m, i + 1, total, cur)
             ELSE IF ~IsOk(c.sw) THEN ChannelLoopSkipsErrors(m, i + 1, total2, cur)
             ELSE IF c.sw[2] = 0 THEN ChannelLoopSkipsErrors(m, i + 1, total2, cur)
             ELSE IF ~IsOk(c.vol) THEN ChannelLoopSkipsErrors(m, i + 1, total2, cur)
             ELSE ChannelLoopSkipsErrors(m, i + 1, total2, cur + (c.vol[2] - m.vol_min))

RECURSIVE ChannelLoopMutedOutOfTotal(_, _, _, _)
\* mutant: a muted channel adds nothing to total either
ChannelLoopMutedOutOfTotal(m, i, total, cur) ==
    IF i > Len(m.chans) THEN [some |-> TRUE, total |-> total, cur |-> cur]
    ELSE LET c == m.chans[i]
             total2 == total + (m.vol_max - m.vol_min)
         IN  IF ~c.has THEN ChannelLoopMutedOutOfTotal(m, i + 1, total, cur)
             ELSE IF ~IsOk(c.sw) THEN [some |-> FALSE, total |-> total2, cur |-> cur]
             ELSE IF c.sw[2] = 0 THEN ChannelLoopMutedOutOfTotal(m, i + 1, total, cur)
             ELSE IF ~IsOk(c.vol) THEN [some |-> FALSE, total |-> total2, cur |-> cur]
             ELSE ChannelLoopMutedOutOfTotal(m, i + 1, total2, cur + (c.vol[2] - m.vol_min))

RECURSIVE ChannelLoopForgetsMin(_, _, _, _)
\* mutant: the level is added without taking the minimum off
ChannelLoopForgetsMin(m, i, total, cur) ==
    IF i > Len(m.chans) THEN [some |-> TRUE, total |-> total, cur |-> cur]
    ELSE LET c == m.chans[i]
             total2 == total + (m.vol_max - m.vol_min)
         IN  IF ~c.has THEN ChannelLoopForgetsMin(m, i + 1, total, cur)
             ELSE IF ~IsOk(c.sw) THEN [some |-> FALSE, total |-> total2, cur |-> cur]
             ELSE IF c.sw[2] = 0 THEN ChannelLoopForgetsMin(m, i + 1, total2, cur)
             ELSE IF ~IsOk(c.vol) THEN [some |-> FALSE, total |-> total2, cur |-> cur]
             ELSE ChannelLoopForgetsMin(m, i + 1, total2, cur + c.vol[2])

RECURSIVE ChannelLoop(_, _, _, _)
\* the `for c in SelemChannelId::all()` loop with its two `?` exits;
\* [some |-> FALSE] is the closure returning None
ChannelLoop(m, i, total, cur) ==
    IF i > Len(m.chans) THEN [some |-> TRUE, total |-> total, cur |-> cur]
    ELSE LET c == m.chans[i]
             total2 == total + (m.vol_max - m.vol_min)
         IN  IF ~c.has THEN ChannelLoop(m, i + 1, total, cur)
             ELSE IF ~IsOk(c.sw) THEN [some |-> FALSE, total |-> total2, cur |-> cur]
             ELSE IF c.sw[2] = 0 THEN ChannelLoop(m, i + 1, total2, cur)
             ELSE IF ~IsOk(c.vol) THEN [some |-> FALSE, total |-> total2, cur |-> cur]
             ELSE ChannelLoop(m, i + 1, total2, cur + (c.vol[2] - m.vol_min))

\* `{:.0}%` of (cur * 100) as f64 / total as f64
VolPercent(cur, total) == ToString(RoundHalfEven(cur * 100, total)) \o "%"

\* the value load_snd_vol assigns to status.vol when the mixer is in state m
load_snd_vol(m) ==
    IF m.open
    THEN IF m.master
         THEN LET r == ChannelLoop(m, 1, 0, 0)
              IN  IF r.some
                  THEN IF r.cur = 0 THEN "-/-" ELSE VolPercent(r.cur, r.total)
                  ELSE "E"
         ELSE "E"
    ELSE "E"

(***************************************************************************)
(* load_sys_stat                                                           *)
(***************************************************************************)
GbThreshold == 1000
KbPerUnit == 1024

\* `{:2.0}%` of the cpu usage, given in tenths of a percent
FmtCpu(tenths) == PadLeft(ToString(RoundHalfEven(tenths, 10)), 2) \o "%"

\* `{:.1}` of n as f64 / d as f64
FmtFixed1(n, d) ==
    LET t == RoundHalfEven(n * 10, d)
    IN  ToString(t \div 10) \o "." \o ToString(t % 10)

\* mutant: the GB threshold of the other variant, 1024
FmtMemThreshold1024(used0) ==
    IF used0 > KbPerUnit
    THEN LET used == used0 \div KbPerUnit
         IN  IF used >= KbPerUnit
             THEN FmtFixed1(used, KbPerUnit) \o "GB"
             ELSE PadLeft(ToString(used), 3) \o "MB"
    ELSE PadLeft(ToString(used0), 3) \o "KB"

\* the closure computing status.mem from used_memory()
FmtMem(used0) ==
    IF used0 > KbPerUnit
    THEN LET used == used0 \div KbPerUnit
         IN  IF used >= GbThreshold
             THEN FmtFixed1(used, KbPerUnit) \o "GB"
             ELSE PadLeft(ToString(used), 3) \o "MB"
    ELSE PadLeft(ToString(used0), 3) \o "KB"

\* lines 100-116: Status after load_sys_stat has seen the sample s
load_sys_stat(st, s) == [st EXCEPT !.cpu = FmtCpu(s.cpu), !.mem = FmtMem(s.used)]

(***************************************************************************)
(* refresh_status conditions and the composition in main                   *)
(***************************************************************************)
\* mutant: the forced first refresh of the time is lost
TimeDueUnforced(f, ts) == ts % 60 = 0
\* line 121
TimeDue(f, ts) == f \/ ts % 60 = 0

\* mutant: the metrics cadence is off the 3 s boundary
SysDueEveryOther(f, ts) == f \/ ts % 2 = 0
\* line 129
SysDue(f, ts) == f \/ ts % 3 = 0

\* mutant: the volume is composed in both modes
ComposeVolAlways(full, st) ==
    "[" \o st.cpu \o "|" \o st.mem \o "] (" \o st.vol \o ") " \o st.time

\* the two format! calls of main
Compose(full, st) ==
    IF full
    THEN "[" \o st.cpu \o "|" \o st.mem \o "] (" \o st.vol \o ") " \o st.time
    ELSE "[" \o st.cpu \o "|" \o st.mem \o "] " \o st.time

(***************************************************************************)
(* Environment: what the mixer, the metrics library and the X library can  *)
(* answer                                                                  *)
(***************************************************************************)
Chan(has, sw, vol) == [has |-> has, sw |-> sw, vol |-> vol]
Uniform(c) == [i \in 1..NumChannels |-> c]
Mixer(open, master, lo, hi, chans) ==
    [open |-> open, master |-> master, vol_min |-> lo, vol_max |-> hi, chans |-> chans]

NoMixer == Mixer(FALSE, FALSE, 0, 0, Uniform(Chan(FALSE, Err, Err)))

\* the mixer states the loop is run against
MixerSamples ==
    { NoMixer,
      Mixer(TRUE, FALSE, 0, 0, Uniform(Chan(FALSE, Err, Err))),
      Mixer(TRUE, TRUE, 1, 5, Uniform(Chan(TRUE, Ok(0), Ok(4)))),
      Mixer(TRUE, TRUE, 1, 5, Uniform(Chan(TRUE, Ok(1), Ok(3)))),
      Mixer(TRUE, TRUE, 1, 5,
            [i \in 1..NumChannels |->
                IF i < NumChannels THEN Chan(TRUE, Ok(1), Ok(3)) ELSE Chan(TRUE, Ok(1), Err)]),
      Mixer(TRUE, TRUE, 1, 5,
            [i \in 1..NumChannels |->
                IF i > 1 THEN Chan(TRUE, Ok(1), Ok(3)) ELSE Chan(TRUE, Err, Ok(3))]) }

\* every mixer state within the bounds, for the checks of load_snd_vol itself
VolRanges == { <<0, 0>>, <<1, 5>> }
ChanStates(lo, hi) ==
    [has : BOOLEAN, sw : {Err, Ok(0), Ok(1)}, vol : {Err} \cup {Ok(v) : v \in lo..hi}]
AllMixers ==
    { Mixer(o, ma, r[1], r[2], cs) :
        o \in BOOLEAN, ma \in BOOLEAN,
        <<r, cs>> \in UNION { {rr} \X [1..NumChannels -> ChanStates(rr[1], rr[2])] : rr \in VolRanges } }

\* (cpu usage in tenths of a percent, used memory) pairs the loop is run against
SysSamples == { [cpu |-> 70, used |-> 512], [cpu |-> 425, used |-> 2048000] }
NoSample == [cpu |-> 0, used |-> 0]

\* used-memory values around every boundary of the formatting, for the checks of
\* load_sys_stat itself
MemBases ==
    { 0, 512, KbPerUnit, 2 * KbPerUnit, 500 * KbPerUnit, 999 * KbPerUnit,
      GbThreshold * KbPerUnit, 1023 * KbPerUnit, KbPerUnit * KbPerUnit,
      1280 * KbPerUnit, 1331 * KbPerUnit, 2048 * KbPerUnit, 10240 * KbPerUnit }
MemInputs ==
    { u \in UNION { (b - MemSpread)..(b + MemSpread) : b \in MemBases } : u >= 0 }
AllSys == [cpu : {70, 425}, used : MemInputs]

XDefaultScreen(dpy) == 0
XRootWindow(dpy, scr) == dpy + scr + 1

(***************************************************************************)
(* Initial state: main after line 158, the handler installed, Status       *)
(* constructed                                                             *)
(***************************************************************************)
StatusDefault ==
    [time |-> "", cpu |-> "", mem |-> "", vol |-> "", should_update |-> FALSE]

Init ==
    /\ argv = <<>>
    /\ FULL_STATUS = FALSE
    /\ status = StatusDefault
    /\ force = TRUE
    /\ now_uts = 0
    /\ vol_sampled = FALSE
    /\ pc = "refresh_time"
    /\ full_read = FALSE
    /\ title = ""
    /\ ONCE_INIT = "new"
    /\ PRI_DISPLAY = NULL
    /\ ROOT_WID = 0
    /\ exit_code = -1
    /\ clock \in StartClocks
    /\ x_opens = 0
    /\ root_name = NoName
    /\ x_out = <<>>
    /\ x_flushes = 0
    /\ mixer = NoMixer
    /\ sys = NoSample
    /\ sig_pc = "none"
    /\ sig_val = FALSE
    /\ n_sig = 0
    /\ evals_since = 0

xvars == <<ONCE_INIT, PRI_DISPLAY, ROOT_WID, exit_code, x_opens, root_name, x_out, x_flushes>>
sigvars == <<FULL_STATUS, sig_pc, sig_val, n_sig>>

\* the main thread runs only while no handler is on its stack
MainRuns == sig_pc = "none" /\ pc # "exited"

(***************************************************************************)
(* refresh_status                                                          *)
(***************************************************************************)
\* lines 119-124
RefreshTime ==
    /\ MainRuns /\ pc = "refresh_time"
    /\ now_uts' = clock
    /\ status' = IF TimeDue(force, clock)
                 THEN [status EXCEPT !.time = TimeFormat(clock), !.should_update = TRUE]
                 ELSE status
    /\ evals_since' = IF evals_since < 2 THEN evals_since + 1 ELSE evals_since
    /\ vol_sampled' = FALSE
    /\ pc' = "refresh_vol"
    /\ UNCHANGED <<force, full_read, title, clock, argv, mixer, sys>>
    /\ UNCHANGED xvars /\ UNCHANGED sigvars

\* mutant: the volume is sampled on the cadence of the metrics only
RefreshVolOnCadence ==
    /\ MainRuns /\ pc = "refresh_vol"
    /\ IF FULL_STATUS /\ SysDue(force, now_uts)
       THEN \E m \in MixerSamples :
               /\ mixer' = m
               /\ status' = [status EXCEPT !.vol = load_snd_vol(m), !.should_update = TRUE]
               /\ vol_sampled' = TRUE
       ELSE UNCHANGED <<mixer, status, vol_sampled>>
    /\ pc' = "refresh_sys"
    /\ UNCHANGED <<force, now_uts, full_read, title, clock, argv, sys, evals_since>>
    /\ UNCHANGED xvars /\ UNCHANGED sigvars

\* lines 125-128
RefreshVol ==
    /\ MainRuns /\ pc = "refresh_vol"
    /\ IF FULL_STATUS
       THEN \E m \in MixerSamples :
               /\ mixer' = m
               /\ status' = [status EXCEPT !.vol = load_snd_vol(m), !.should_update = TRUE]
               /\ vol_sampled' = TRUE
       ELSE UNCHANGED <<mixer, status, vol_sampled>>
    /\ pc' = "refresh_sys"
    /\ UNCHANGED <<force, now_uts, full_read, title, clock, argv, sys, evals_since>>
    /\ UNCHANGED xvars /\ UNCHANGED sigvars

\* lines 129-132
RefreshSys ==
    /\ MainRuns /\ pc = "refresh_sys"
    /\ IF SysDue(force, now_uts)
       THEN \E s \in SysSamples :
               /\ sys' = s
               /\ status' = [load_sys_stat(status, s) EXCEPT !.should_update = TRUE]
       ELSE UNCHANGED <<sys, status>>
    /\ pc' = "loop"
    /\ UNCHANGED <<force, now_uts, full_read, title, clock, vol_sampled, argv, mixer, evals_since>>
    /\ UNCHANGED xvars /\ UNCHANGED sigvars

(***************************************************************************)
(* main's loop                                                             *)
(***************************************************************************)
\* mutant: the title is published on every iteration
LoopCheckAlways ==
    /\ MainRuns /\ pc = "loop"
    /\ pc' = "read_mode"
    /\ UNCHANGED <<status, force, now_uts, full_read, title, clock, vol_sampled, argv, mixer, sys, evals_since>>
    /\ UNCHANGED xvars /\ UNCHANGED sigvars

\* line 161
LoopCheck ==
    /\ MainRuns /\ pc = "loop"
    /\ pc' = IF status.should_update THEN "read_mode" ELSE "sleep"
    /\ UNCHANGED <<status, force, now_uts, full_read, title, clock, vol_sampled, argv, mixer, sys, evals_since>>
    /\ UNCHANGED xvars /\ UNCHANGED sigvars

\* line 162: the load of FULL_STATUS
ReadMode ==
    /\ MainRuns /\ pc = "read_mode"
    /\ full_read' = FULL_STATUS
    /\ pc' = "compose"
    /\ UNCHANGED <<status, force, now_uts, title, clock, vol_sampled, argv, mixer, sys, evals_since>>
    /\ UNCHANGED xvars /\ UNCHANGED sigvars

\* lines 163-169: the format! the loaded value selects
ComposeTitle ==
    /\ MainRuns /\ pc = "compose"
    /\ title' = Compose(full_read, status)
    /\ pc' = "update_status_text"
    /\ UNCHANGED <<status, force, now_uts, full_read, clock, vol_sampled, argv, mixer, sys, evals_since>>
    /\ UNCHANGED xvars /\ UNCHANGED sigvars

\* mutant: the title is handed over without its terminator
PushNulForgotten ==
    /\ MainRuns /\ pc = "update_status_text"
    /\ title' = title
    /\ pc' = "call_once"
    /\ UNCHANGED <<status, force, now_uts, full_read, clock, vol_sampled, argv, mixer, sys, evals_since>>
    /\ UNCHANGED xvars /\ UNCHANGED sigvars

\* line 138
PushNul ==
    /\ MainRuns /\ pc = "update_status_text"
    /\ title' = title \o NUL
    /\ pc' = "call_once"
    /\ UNCHANGED <<status, force, now_uts, full_read, clock, vol_sampled, argv, mixer, sys, evals_since>>
    /\ UNCHANGED xvars /\ UNCHANGED sigvars

\* mutant: the closure is run by every call
OnceRunsAlways(once) == TRUE
\* ONCE_INIT.call_once: whether the closure is run
OnceRuns(once) == once = "new"

\* mutant: a null display is not checked for
OpenFailsIgnored ==
    /\ pc' = "store_name"
    /\ UNCHANGED <<ONCE_INIT, PRI_DISPLAY, ROOT_WID, exit_code>>

\* lines 45-48: XOpenDisplay returned null
OpenFails ==
    /\ exit_code' = 2
    /\ pc' = "exited"
    /\ UNCHANGED <<ONCE_INIT, PRI_DISPLAY, ROOT_WID>>

\* lines 43-53
CallOnce ==
    /\ MainRuns /\ pc = "call_once"
    /\ IF OnceRuns(ONCE_INIT)
       THEN /\ x_opens' = x_opens + 1
            /\ \/ \* XOpenDisplay returns null
                  OpenFails
               \/ \* XOpenDisplay returns a new connection
                  LET dpy == x_opens + 1
                  IN  /\ PRI_DISPLAY' = dpy
                      /\ ROOT_WID' = XRootWindow(dpy, XDefaultScreen(dpy))
                      /\ ONCE_INIT' = "done"
                      /\ pc' = "store_name"
                      /\ UNCHANGED exit_code
       ELSE /\ pc' = "store_name"
            /\ UNCHANGED <<ONCE_INIT, PRI_DISPLAY, ROOT_WID, exit_code, x_opens>>
    /\ UNCHANGED <<status, force, now_uts, full_read, title, clock, vol_sampled, argv, mixer, sys, evals_since>>
    /\ UNCHANGED <<root_name, x_out, x_flushes>> /\ UNCHANGED sigvars

\* line 55
StoreName ==
    /\ MainRuns /\ pc = "store_name"
    /\ x_out' = Append(x_out, [dpy |-> PRI_DISPLAY, w |-> ROOT_WID, name |-> CStr(title)])
    /\ pc' = "flush"
    /\ UNCHANGED <<status, force, now_uts, full_read, title, clock, vol_sampled, argv, mixer, sys, evals_since>>
    /\ UNCHANGED <<ONCE_INIT, PRI_DISPLAY, ROOT_WID, exit_code, x_opens, root_name, x_flushes>>
    /\ UNCHANGED sigvars

\* line 56: the buffered requests reach the server, the last name stored wins
Flush ==
    /\ MainRuns /\ pc = "flush"
    /\ root_name' = IF x_out = <<>> THEN root_name ELSE x_out[Len(x_out)].name
    /\ x_out' = <<>>
    /\ x_flushes' = IF x_flushes < 1 THEN x_flushes + 1 ELSE x_flushes
    /\ pc' = "clear"
    /\ UNCHANGED <<status, force, now_uts, full_read, title, clock, vol_sampled, argv, mixer, sys, evals_since>>
    /\ UNCHANGED <<ONCE_INIT, PRI_DISPLAY, ROOT_WID, exit_code, x_opens>>
    /\ UNCHANGED sigvars

\* line 170
ClearDirty ==
    /\ MainRuns /\ pc = "clear"
    /\ status' = [status EXCEPT !.should_update = FALSE]
    /\ pc' = "sleep"
    /\ UNCHANGED <<force, now_uts, full_read, title, clock, vol_sampled, argv, mixer, sys, evals_since>>
    /\ UNCHANGED xvars /\ UNCHANGED sigvars

\* lines 172-173: the sleep, and the call of refresh_status(&mut status, false)
Sleep ==
    /\ MainRuns /\ pc = "sleep"
    /\ \E d \in 1..MaxSleep :
          /\ clock + d <= MaxClock
          /\ clock' = clock + d
    /\ force' = FALSE
    /\ pc' = "refresh_time"
    /\ UNCHANGED <<argv, status, now_uts, vol_sampled, full_read, title, mixer, sys, evals_since>>
    /\ UNCHANGED xvars /\ UNCHANGED sigvars

(***************************************************************************)
(* sig_user, run on the main thread's stack with SIGUSR1 blocked           *)
(***************************************************************************)
\* delivery of SIGUSR1 and the load of line 143
SigLoad ==
    /\ sig_pc = "none" /\ pc # "exited"
    /\ n_sig < MaxSignals
    /\ n_sig' = n_sig + 1
    /\ sig_val' = FULL_STATUS
    /\ sig_pc' = "loaded"
    /\ UNCHANGED <<FULL_STATUS, status, force, now_uts, pc, full_read, title, clock, vol_sampled, argv, mixer, sys, evals_since>>
    /\ UNCHANGED xvars

\* mutant: the handler sets the flag instead of flipping it
ToggledSet(v) == TRUE
\* the value sig_user stores
Toggled(v) == ~v

\* mutant: the handler also marks the status dirty
SigStoreMarksDirty ==
    /\ sig_pc = "loaded"
    /\ FULL_STATUS' = Toggled(sig_val)
    /\ status' = [status EXCEPT !.should_update = TRUE]
    /\ sig_pc' = "none"
    /\ evals_since' = 0
    /\ UNCHANGED <<sig_val, n_sig, force, now_uts, pc, full_read, title, clock, vol_sampled,
                   argv, mixer, sys>>
    /\ UNCHANGED xvars

\* the store of line 143 and the return from the handler
SigStore ==
    /\ sig_pc = "loaded"
    /\ FULL_STATUS' = Toggled(sig_val)
    /\ sig_pc' = "none"
    /\ evals_since' = 0
    /\ UNCHANGED <<sig_val, n_sig, status, force, now_uts, pc, full_read, title, clock, vol_sampled, argv, mixer, sys>>
    /\ UNCHANGED xvars

Next ==
    \/ RefreshTime \/ RefreshVol \/ RefreshSys
    \/ LoopCheck \/ ReadMode \/ ComposeTitle \/ PushNul \/ CallOnce \/ StoreName \/ Flush \/ ClearDirty
    \/ Sleep
    \/ SigLoad \/ SigStore

Spec == Init /\ [][Next]_vars

(***************************************************************************)
(* The variant with a one-shot mode (spec.md, section 6): a positional     *)
(* argument is published as the title and the process exits; without one   *)
(* the loop runs as above                                                  *)
(***************************************************************************)
ArgWords == {"", "hello", "a b", "[x] ", "0%"}
Args == { w1 \o w2 : w1 \in ArgWords, w2 \in ArgWords }

InitOneShot ==
    /\ argv \in {<<>>} \cup { <<a>> : a \in Args }
    /\ pc = "main"
    /\ FULL_STATUS = FALSE
    /\ status = StatusDefault
    /\ force = TRUE /\ now_uts = 0 /\ vol_sampled = FALSE /\ full_read = FALSE /\ title = ""
    /\ ONCE_INIT = "new" /\ PRI_DISPLAY = NULL /\ ROOT_WID = 0 /\ exit_code = -1
    /\ clock \in StartClocks
    /\ x_opens = 0 /\ root_name = NoName /\ x_out = <<>> /\ x_flushes = 0
    /\ mixer = NoMixer /\ sys = NoSample
    /\ sig_pc = "none" /\ sig_val = FALSE /\ n_sig = 0 /\ evals_since = 0

\* mutant: the argument is not looked at
MainArgsIgnored ==
    /\ pc = "main"
    /\ pc' = "refresh_time"
    /\ UNCHANGED <<argv, status, force, now_uts, full_read, title, clock, vol_sampled, mixer, sys, evals_since>>
    /\ UNCHANGED xvars /\ UNCHANGED sigvars

\* main of the one-shot variant: an argument, if present, goes to update_status_text
MainArgs ==
    /\ pc = "main"
    /\ IF Len(argv) > 0
       THEN title' = argv[1] /\ pc' = "update_status_text"
       ELSE title' = title /\ pc' = "refresh_time"
    /\ UNCHANGED <<argv, status, force, now_uts, full_read, clock, vol_sampled, mixer, sys, evals_since>>
    /\ UNCHANGED xvars /\ UNCHANGED sigvars

\* main of the one-shot variant returns once the argument is published
OneShotExit ==
    /\ pc = "clear" /\ Len(argv) > 0
    /\ exit_code' = 0
    /\ pc' = "exited"
    /\ UNCHANGED <<argv, status, force, now_uts, full_read, title, clock, vol_sampled, mixer, sys, evals_since>>
    /\ UNCHANGED <<ONCE_INIT, PRI_DISPLAY, ROOT_WID, x_opens, root_name, x_out, x_flushes>>
    /\ UNCHANGED sigvars

NextOneShot ==
    \/ MainArgs
    \/ Len(argv) > 0 /\ (PushNul \/ CallOnce \/ StoreName \/ Flush)
    \/ OneShotExit
    \/ Len(argv) = 0 /\ Next

SpecOneShot == InitOneShot /\ [][NextOneShot]_vars

(***************************************************************************)
(* load_snd_vol on its own: one call against every mixer state in bounds   *)
(***************************************************************************)
InitVol ==
    /\ mixer \in AllMixers
    /\ pc = "load_snd_vol"
    /\ argv = <<>>
    /\ FULL_STATUS = TRUE
    /\ status = StatusDefault
    /\ force = FALSE /\ now_uts = 0 /\ vol_sampled = FALSE /\ full_read = FALSE /\ title = ""
    /\ ONCE_INIT = "new" /\ PRI_DISPLAY = NULL /\ ROOT_WID = 0 /\ exit_code = -1
    /\ clock = 0 /\ x_opens = 0 /\ root_name = NoName /\ x_out = <<>> /\ x_flushes = 0
    /\ sys = NoSample
    /\ sig_pc = "none" /\ sig_val = FALSE /\ n_sig = 0 /\ evals_since = 0

\* lines 69-98, called as on line 126
CallLoadSndVol ==
    /\ pc = "load_snd_vol"
    /\ status' = [status EXCEPT !.vol = load_snd_vol(mixer)]
    /\ pc' = "returned"
    /\ UNCHANGED <<force, now_uts, full_read, title, clock, vol_sampled, argv, mixer, sys, evals_since>>
    /\ UNCHANGED xvars /\ UNCHANGED sigvars

NextVol == CallLoadSndVol

SpecVol == InitVol /\ [][NextVol]_vars

(***************************************************************************)
(* load_sys_stat on its own: one call against every sample in bounds       *)
(***************************************************************************)
InitMem ==
    /\ sys \in AllSys
    /\ pc = "load_sys_stat"
    /\ argv = <<>>
    /\ FULL_STATUS = FALSE
    /\ status = StatusDefault
    /\ force = FALSE /\ now_uts = 0 /\ vol_sampled = FALSE /\ full_read = FALSE /\ title = ""
    /\ ONCE_INIT = "new" /\ PRI_DISPLAY = NULL /\ ROOT_WID = 0 /\ exit_code = -1
    /\ clock = 0 /\ x_opens = 0 /\ root_name = NoName /\ x_out = <<>> /\ x_flushes = 0
    /\ mixer = NoMixer
    /\ sig_pc = "none" /\ sig_val = FALSE /\ n_sig = 0 /\ evals_since = 0

\* lines 100-116, called as on line 130
CallLoadSysStat ==
    /\ pc = "load_sys_stat"
    /\ status' = load_sys_stat(status, sys)
    /\ pc' = "returned"
    /\ UNCHANGED <<force, now_uts, full_read, title, clock, vol_sampled, argv, mixer, sys, evals_since>>
    /\ UNCHANGED xvars /\ UNCHANGED sigvars

NextMem == CallLoadSysStat

SpecMem == InitMem /\ [][NextMem]_vars

TypeOK ==
    /\ FULL_STATUS \in BOOLEAN
    /\ force \in BOOLEAN
    /\ full_read \in BOOLEAN
    /\ status.should_update \in BOOLEAN
    /\ pc \in {"refresh_time", "refresh_vol", "refresh_sys", "loop", "read_mode", "compose",
               "update_status_text", "call_once", "store_name", "flush", "clear",
               "sleep", "exited", "main", "load_snd_vol", "load_sys_stat", "returned"}
    /\ sig_pc \in {"none", "loaded"}
    /\ n_sig \in 0..MaxSignals
    /\ clock \in 0..MaxClock
    /\ exit_code \in {-1, 0, 2}
    /\ vol_sampled \in BOOLEAN

(***************************************************************************)
(* Claims                                                                  *)
(***************************************************************************)
InRefresh == pc \in {"refresh_time", "refresh_vol", "refresh_sys"}
InPublish == pc \in {"read_mode", "compose", "update_status_text", "call_once",
                     "store_name", "flush", "clear"}

\* C1: in a non-forced evaluation the time field changes only when the sampled
\* timestamp is a multiple of 60, and cpu and mem change only when it is a
\* multiple of 3; off those boundaries the three fields keep their values.
C1_CadenceOnly ==
    [][ ~force =>
          /\ (status'.time # status.time =>
                 pc = "refresh_time" /\ now_uts' % 60 = 0)
          /\ ((status'.cpu # status.cpu \/ status'.mem # status.mem) =>
                 pc = "refresh_sys" /\ now_uts % 3 = 0) ]_vars

\* an evaluation past the minute boundary, off both cadences, has kept the old time
C1_Witness ==
    /\ ~force /\ pc = "loop"
    /\ now_uts = 61
    /\ status.time = "08/10 12:00"
    /\ ~status.should_update

\* C2: the forced first evaluation refreshes time, cpu and mem whatever the
\* timestamp, refreshes vol exactly when the mode flag is on, and marks the
\* status dirty; the first publish precedes the first sleep and nothing composed
\* ever has an empty time, cpu or mem.
C2_FirstEvaluation ==
    /\ []( (~InRefresh \/ ~force) =>
             status.time # "" /\ status.cpu # "" /\ status.mem # "" )
    /\ []( (force /\ pc = "loop") => status.should_update )
    /\ []( pc = "sleep" => root_name # NoName /\ x_out = <<>> )
    /\ [][ (force /\ pc = "refresh_vol" /\ pc' = "refresh_sys") =>
             ((status'.vol # "") <=> FULL_STATUS) ]_vars

\* the first publish is done, from a timestamp on neither cadence, with the flag on
C2_Witness ==
    /\ force /\ pc = "sleep"
    /\ now_uts % 3 # 0 /\ now_uts % 60 # 0
    /\ status.vol # ""
    /\ root_name = Compose(TRUE, status)

\* C3: the publisher is called exactly when should_update is set after the
\* evaluation, and should_update is cleared right after the publish: the loop
\* never sleeps with it set, and an evaluation that refreshed nothing publishes
\* nothing.
C3_PublishIffDirty ==
    /\ []( pc \in {"sleep", "refresh_time"} => ~status.should_update )
    /\ []( InPublish => status.should_update )
    /\ [][ (pc = "loop" /\ pc' # pc) =>
             /\ status.should_update => pc' = "read_mode"
             /\ ~status.should_update => pc' = "sleep" /\ x_out' = x_out /\ root_name' = root_name
          ]_vars
    /\ [][ (pc = "clear" /\ pc' # pc) => pc' = "sleep" /\ ~status'.should_update ]_vars
    /\ [][ (InRefresh /\ status'.should_update # status.should_update) =>
             \/ pc = "refresh_time" /\ (force \/ now_uts' % 60 = 0)
             \/ pc = "refresh_vol" /\ FULL_STATUS
             \/ pc = "refresh_sys" /\ (force \/ now_uts % 3 = 0) ]_vars

\* the loop sleeps after an evaluation that refreshed nothing: no signal ever
\* came, the timestamp is on no cadence, and the name is the one published before
C3_Witness ==
    /\ pc = "sleep" /\ ~force /\ n_sig = 0
    /\ now_uts % 3 # 0 /\ now_uts % 60 # 0
    /\ root_name = Compose(FALSE, status)
    /\ title = root_name \o NUL

\* C4: the title is a function of the mode flag loaded on line 162 and of the
\* Status fields: "[cpu|mem] (vol) time" when it is on, "[cpu|mem] time" when it
\* is off; for cpu " 7%", mem "512KB", time "08/10 12:00" the normal title is
\* "[ 7%|512KB] 08/10 12:00" and, with vol "E", the extended one is
\* "[ 7%|512KB] (E) 08/10 12:00".
C4_Composition ==
    pc = "update_status_text" =>
        /\ Len(title) = Len(status.cpu) + Len(status.mem) + Len(status.time) + 4
                         + (IF full_read THEN Len(status.vol) + 3 ELSE 0)
        /\ (status.cpu = " 7%" /\ status.mem = "512KB" /\ status.time = "08/10 12:00") =>
              /\ ~full_read => title = "[ 7%|512KB] 08/10 12:00"
              /\ (full_read /\ status.vol = "E") => title = "[ 7%|512KB] (E) 08/10 12:00"
              /\ (full_read /\ status.vol = "50%") => title = "[ 7%|512KB] (50%) 08/10 12:00"

\* the normal title of the example is on the root window and the extended one
\* has just been composed
C4_Witness ==
    /\ pc = "update_status_text"
    /\ root_name = "[ 7%|512KB] 08/10 12:00"
    /\ title = "[ 7%|512KB] (E) 08/10 12:00"

\* C5: every delivery of SIGUSR1 negates the mode flag: after n deliveries,
\* wherever they interrupted the loop, the flag is FALSE negated n times, and
\* two more toggles give the composed format of the current mode again.
C5_ToggleParity ==
    /\ sig_pc = "none" => (FULL_STATUS <=> (n_sig % 2 = 1))
    /\ sig_pc = "loaded" => (sig_val <=> (n_sig % 2 = 0)) /\ FULL_STATUS = sig_val
    /\ Compose(Toggled(Toggled(FULL_STATUS)), status) = Compose(FULL_STATUS, status)
    /\ status.vol # "" => Compose(Toggled(FULL_STATUS), status) # Compose(FULL_STATUS, status)

\* two signals have been handled, the second one in the middle of an evaluation
C5_Witness ==
    /\ n_sig = 2 /\ sig_pc = "none" /\ ~FULL_STATUS
    /\ pc = "refresh_sys" /\ status.vol # "" /\ ~force

\* C6: after SIGUSR1 has flipped the mode flag, in either direction, the first
\* evaluation that follows the flip publishes a title in the format of the new
\* mode: when the loop next sleeps, the root window shows the new format.
C6_ToggleVisibleNextTick ==
    (pc = "sleep" /\ sig_pc = "none" /\ n_sig >= 1 /\ evals_since >= 1) =>
        root_name = Compose(FULL_STATUS, status)

\* C7: the display is opened at most once: XOpenDisplay and the resolution of
\* the root window run only within the first set_root_name call, every later
\* call uses the cached handle and window unchanged, and the handle is never
\* replaced.
C7_OpenOnce ==
    /\ []( x_opens <= 1 )
    /\ []( pc \in {"store_name", "flush", "clear"} =>
             PRI_DISPLAY # NULL /\ ONCE_INIT = "done" )
    /\ []( \A i \in 1..Len(x_out) :
             x_out[i].dpy = PRI_DISPLAY /\ x_out[i].w = ROOT_WID )
    /\ [][ PRI_DISPLAY # NULL =>
             PRI_DISPLAY' = PRI_DISPLAY /\ ROOT_WID' = ROOT_WID /\ x_opens' = x_opens ]_vars
    /\ [][ x_opens' # x_opens =>
             force /\ root_name = NoName /\ x_out = <<>> /\ x_flushes = 0 ]_vars

\* a later call has stored a name through the handle opened by the first one
C7_Witness ==
    /\ ~force /\ pc = "flush" /\ x_opens = 1
    /\ root_name # NoName
    /\ Len(x_out) = 1 /\ x_out[1].dpy = PRI_DISPLAY /\ x_out[1].w = ROOT_WID

\* C8: when the display cannot be opened on the first publish the process exits
\* at once with status 2: no name is stored, nothing is flushed, the open is not
\* tried again, and the loop reaches neither a sleep nor a second evaluation.
C8_OpenFailureExits ==
    /\ []( exit_code = 2 =>
             /\ pc = "exited" /\ force
             /\ x_opens = 1 /\ PRI_DISPLAY = NULL
             /\ root_name = NoName /\ x_out = <<>> /\ x_flushes = 0 )
    /\ []( pc = "exited" <=> exit_code = 2 )
    /\ [][ (pc = "call_once" /\ x_opens' # x_opens /\ PRI_DISPLAY' = NULL) =>
             exit_code' = 2 /\ pc' = "exited" ]_vars
    /\ [][ pc # "exited" ]_vars

\* the process has exited on a failed open, a signal having been handled before
C8_Witness ==
    /\ pc = "exited" /\ exit_code = 2 /\ x_opens = 1
    /\ FULL_STATUS /\ status.vol = "E"

\* a query that load_snd_vol makes on mixer state m fails
VolQueryFails(m) ==
    \/ ~m.open
    \/ ~m.master
    \/ \E i \in 1..Len(m.chans) :
          /\ m.chans[i].has
          /\ \/ ~IsOk(m.chans[i].sw)
             \/ m.chans[i].sw[2] # 0 /\ ~IsOk(m.chans[i].vol)

\* C9: a failed volume query sets vol to exactly "E", whatever the earlier
\* channels gave, and does not stop the loop: the status is dirty and goes on to
\* be published, and the next extended-mode evaluation samples again, a
\* successful query replacing the "E".
C9_VolumeFailure ==
    /\ [][ (pc = "refresh_vol" /\ pc' = "refresh_sys" /\ FULL_STATUS) =>
             /\ VolQueryFails(mixer') =>
                   status'.vol = "E" /\ status'.should_update /\ exit_code' = -1
             /\ ~VolQueryFails(mixer') => status'.vol # "E" ]_vars
    /\ [][ (pc = "refresh_sys" /\ pc' = "loop" /\ status.should_update) =>
             status'.should_update /\ status'.vol = status.vol ]_vars
    /\ [][ (pc = "loop" /\ pc' # pc /\ status.should_update) => pc' = "read_mode" ]_vars
    /\ []( (pc = "update_status_text" /\ full_read) =>
             title = Compose(TRUE, status) )

\* "E" is on the root window and the next evaluation has sampled a volume again
C9_Witness ==
    /\ pc = "refresh_sys" /\ ~force
    /\ status.vol = "50%"
    /\ root_name = Compose(TRUE, [status EXCEPT !.vol = "E"])

\* n/d rounded to the nearest integer, ties away from zero (f64::round)
RoundHalfUp(n, d) ==
    LET q == n \div d
        r == n % d
    IN  IF 2 * r >= d THEN q + 1 ELSE q

\* (max - min) summed over the playback-capable channels
VolTotal(m) ==
    (m.vol_max - m.vol_min) * Cardinality({i \in 1..Len(m.chans) : m.chans[i].has})

RECURSIVE VolCurrentUpTo(_, _)
\* (level - min) summed over the capable channels up to n whose switch is on
VolCurrentUpTo(m, n) ==
    IF n = 0 THEN 0
    ELSE VolCurrentUpTo(m, n - 1)
         + (IF m.chans[n].has /\ m.chans[n].sw[2] # 0
            THEN m.chans[n].vol[2] - m.vol_min ELSE 0)

VolCurrent(m) == VolCurrentUpTo(m, Len(m.chans))

\* C10 as stated: when every query succeeds the result is "-/-" for current = 0
\* and otherwise round(current * 100 / total) followed by "%".
C10_VolumeRound ==
    (pc = "returned" /\ ~VolQueryFails(mixer)) =>
        status.vol = IF VolCurrent(mixer) = 0 THEN "-/-"
                     ELSE ToString(RoundHalfUp(VolCurrent(mixer) * 100, VolTotal(mixer))) \o "%"

\* C10 as amended: total is (max - min) over every capable channel, muted or
\* not, current is (level - min) over the capable channels whose switch is on;
\* the result is "-/-" for current = 0 and otherwise current * 100 / total
\* rounded to the nearest integer, an exact half going to the even one,
\* followed by "%".
C10_VolumeHalfEven ==
    (pc = "returned" /\ ~VolQueryFails(mixer)) =>
        status.vol = IF VolCurrent(mixer) = 0 THEN "-/-"
                     ELSE ToString(RoundHalfEven(VolCurrent(mixer) * 100, VolTotal(mixer))) \o "%"

\* one channel muted, the other one step above the minimum: 12.5 is shown as 12%
C10_Witness ==
    /\ pc = "returned" /\ ~VolQueryFails(mixer)
    /\ \E i \in 1..Len(mixer.chans) : mixer.chans[i].has /\ mixer.chans[i].sw = Ok(0)
    /\ VolCurrent(mixer) = 1 /\ VolTotal(mixer) = 8
    /\ status.vol = "12%"

\* the last n characters of s
Suffix(s, n) == SubSeq(s, Len(s) - n + 1, Len(s))

Digits == <<"0", "1", "2", "3", "4", "5", "6", "7", "8", "9">>
IsDigit(c) == \E d \in 1..10 : Digits[d] = c
DigitVal(c) == (CHOOSE d \in 1..10 : Digits[d] = c) - 1

RECURSIVE ParseNatUpTo(_, _)
\* the number written by the first n characters of s, all of them digits
ParseNatUpTo(s, n) ==
    IF n = 0 THEN 0
    ELSE 10 * ParseNatUpTo(s, n - 1) + DigitVal(SubSeq(s, n, n))

RECURSIVE TrimLeft(_)
\* s without its leading spaces
TrimLeft(s) == IF Len(s) > 0 /\ SubSeq(s, 1, 1) = " " THEN TrimLeft(SubSeq(s, 2, Len(s))) ELSE s

\* s is a non-empty run of digits
IsNumber(s) == Len(s) > 0 /\ \A i \in 1..Len(s) : IsDigit(SubSeq(s, i, i))

\* the number shown by s, leading spaces allowed; -1 when s shows no number
ShownNat(s) ==
    LET t == TrimLeft(s)
    IN  IF IsNumber(t) THEN ParseNatUpTo(t, Len(t)) ELSE -1

\* the tenths shown by s of the form <digits>.<digit>; -1 for any other form
ShownTenths(s) ==
    IF Len(s) >= 3 /\ SubSeq(s, Len(s) - 1, Len(s) - 1) = "."
       /\ IsNumber(SubSeq(s, 1, Len(s) - 2)) /\ IsDigit(Suffix(s, 1))
    THEN 10 * ParseNatUpTo(s, Len(s) - 2) + DigitVal(Suffix(s, 1))
    ELSE -1

\* C11: the unit and value of the memory string follow used memory: up to 1024
\* it ends in KB and shows used itself; above 1024 with used / 1024 below 1000
\* it ends in MB and shows used / 1024; from used / 1024 = 1000 on it ends in GB
\* and shows (used / 1024) / 1024 with exactly one decimal digit (the nearest
\* tenth). The three ranges are disjoint and cover every value.
C11_MemoryUnits ==
    pc = "returned" =>
        LET u == sys.used
            out == status.mem
            num == SubSeq(out, 1, Len(out) - 2)
            kb == u <= 1024
            mb == u > 1024 /\ u \div 1024 < 1000
            gb == u \div 1024 >= 1000
        IN  /\ Cardinality({r \in {<<1, kb>>, <<2, mb>>, <<3, gb>>} : r[2]}) = 1
            /\ kb => Suffix(out, 2) = "KB" /\ ShownNat(num) = u
            /\ mb => Suffix(out, 2) = "MB" /\ ShownNat(num) = u \div 1024
            /\ gb => /\ Suffix(out, 2) = "GB"
                      /\ ShownTenths(num) >= 0
                      /\ 1024 * ShownTenths(num) - 10 * (u \div 1024) \in -512..512

\* 1000 MB, below the other variant's threshold of 1024, is shown in GB
C11_Witness ==
    /\ pc = "returned"
    /\ sys.used \div 1024 = 1000
    /\ status.mem = "1.0GB"

C13_AtomicToggle ==
    /\ sig_pc # "loaded"
    /\ FULL_STATUS <=> (n_sig % 2 = 1)

\* C14: an evaluation that reads the mode flag as true samples vol and sets
\* should_update whatever the timestamp, so that the title is published on that
\* tick; an evaluation that reads it as false leaves vol alone and its volume
\* step sets no should_update; vol changes nowhere else.
C14_VolumeEveryTick ==
    /\ [][ (pc = "refresh_vol" /\ pc' = "refresh_sys") =>
             IF FULL_STATUS
             THEN vol_sampled' /\ status'.should_update
                  /\ status'.vol \in {load_snd_vol(m) : m \in MixerSamples}
             ELSE ~vol_sampled' /\ status' = status ]_vars
    /\ [][ status'.vol # status.vol => pc = "refresh_vol" /\ FULL_STATUS ]_vars
    /\ []( (vol_sampled /\ pc \in {"refresh_sys", "loop"}) => status.should_update )
    /\ [][ (vol_sampled /\ pc = "loop" /\ pc' # pc) => pc' = "read_mode" ]_vars
    /\ []( (~vol_sampled /\ ~force /\ pc \in {"refresh_sys", "loop"}
             /\ now_uts % 60 # 0 /\ (pc = "loop" => now_uts % 3 # 0)) =>
             ~status.should_update )

\* on a tick off both cadences a new volume is on its way to the root window,
\* which still shows the "E" of the tick before
C14_Witness ==
    /\ ~force /\ pc = "store_name" /\ full_read /\ vol_sampled
    /\ now_uts % 3 # 0 /\ now_uts % 60 # 0
    /\ status.vol = "50%"
    /\ root_name = Compose(TRUE, [status EXCEPT !.vol = "E"])

\* C15: the shown time never stays stale past a minute boundary: after every
\* evaluation the time field is the minute of the timestamp just sampled.
C15_TimeNeverStale ==
    pc = "loop" => status.time = TimeFormat(now_uts)

\* C16: every publish, the first included, stores the title as the root
\* window's name and flushes before control returns to the loop: a store is
\* followed by a flush with no other store in between, and the string handed
\* over is the composed title ended by exactly one NUL.
C16_StoreThenFlush ==
    /\ []( Len(x_out) <= 1 )
    /\ []( pc # "flush" => x_out = <<>> )
    /\ []( pc \in {"call_once", "store_name", "flush", "clear"} =>
             /\ title = Compose(full_read, status) \o NUL
             /\ CStrLen(title, 1) = Len(title) - Len(NUL) )
    /\ [][ (pc = "store_name" /\ pc' # pc) =>
             /\ pc' = "flush"
             /\ x_out' = <<[dpy |-> PRI_DISPLAY, w |-> ROOT_WID,
                            name |-> Compose(full_read, status)]>>
             /\ root_name' = root_name ]_vars
    /\ [][ (pc = "flush" /\ pc' # pc) =>
             /\ pc' = "clear"
             /\ root_name' = Compose(full_read, status)
             /\ x_out' = <<>> /\ x_flushes' >= 1 ]_vars
    /\ [][ root_name' # root_name => pc = "flush" ]_vars

\* a later publish has replaced the first name and returned to the loop
C16_Witness ==
    /\ ~force /\ pc = "clear" /\ full_read
    /\ x_out = <<>> /\ x_flushes >= 1
    /\ root_name = Compose(TRUE, status)
    /\ title = root_name \o NUL
    /\ status.time = "08/10 12:01"

\* C17: the mode flag is written by the handler alone, and the handler writes
\* nothing else: Status, should_update, the title, the display handle and the
\* X requests change only in steps of the main thread, which never change the
\* flag.
C17_WriteOwnership ==
    /\ [][ FULL_STATUS' # FULL_STATUS => sig_pc = "loaded" /\ sig_pc' = "none" ]_vars
    /\ [][ sig_pc' # sig_pc =>
             UNCHANGED <<status, title, full_read, pc, force, now_uts, vol_sampled,
                         ONCE_INIT, PRI_DISPLAY, ROOT_WID, exit_code,
                         x_opens, x_out, x_flushes, root_name>> ]_vars
    /\ [][ sig_pc' = sig_pc =>
             UNCHANGED <<FULL_STATUS, sig_val, n_sig>> ]_vars

\* the flag was flipped in the middle of a publish, whose state is intact
C17_Witness ==
    /\ sig_pc = "none" /\ n_sig >= 1
    /\ pc = "flush" /\ FULL_STATUS # full_read
    /\ status.should_update
    /\ title = Compose(full_read, status) \o NUL

\* C18: a title composed in extended format carries a vol sampled by the
\* evaluation just before it, never the empty initial value, also when SIGUSR1
\* comes between the read of line 125 and the read of line 162.
C18_ExtendedVolFresh ==
    (pc = "update_status_text" /\ full_read) => (vol_sampled /\ status.vol # "")

\* the strings load_snd_vol may give for a percentage of 0..100
Percentages == { ToString(p) \o "%" : p \in 0..100 }

\* C19: with every level in [min, max], load_snd_vol divides by no zero and
\* gives no percentage outside 0..100: a non-zero current comes with
\* 0 < current <= total, and with no capable channel or max = min the result is
\* "-/-" (or "E" on a failed query), not a percentage.
C19_PercentInRange ==
    pc = "returned" =>
        LET r == ChannelLoop(mixer, 1, 0, 0)
            degenerate == \/ mixer.vol_max = mixer.vol_min
                          \/ \A i \in 1..Len(mixer.chans) : ~mixer.chans[i].has
        IN  /\ status.vol \in {"E", "-/-"} \cup Percentages
            /\ r.cur >= 0 /\ r.total >= 0
            /\ r.cur # 0 => r.total > 0 /\ r.cur <= r.total
            /\ status.vol \in Percentages => r.some /\ r.cur > 0 /\ r.total > 0
            /\ degenerate => r.cur = 0 /\ status.vol \in {"E", "-/-"}
            /\ (degenerate /\ ~VolQueryFails(mixer)) => status.vol = "-/-"

\* every channel is capable and switched on, and max = min: "-/-"
C19_Witness ==
    /\ pc = "returned" /\ mixer.open /\ mixer.master
    /\ mixer.vol_max = mixer.vol_min
    /\ \A i \in 1..Len(mixer.chans) :
          mixer.chans[i].has /\ mixer.chans[i].sw = Ok(1) /\ IsOk(mixer.chans[i].vol)
    /\ status.vol = "-/-"

====
